---- MODULE Spec2Model ----
(***************************************************************************)
(* Model of the interpose chain element (package interpose) of the sdk:    *)
(* interposeServer.Request, interposeServer.Close, getConnectionID and the *)
(* registration surface LoadOrStore / Delete.                              *)
(*                                                                         *)
(* Every inbound Request/Close runs in its own goroutine.  A call is cut   *)
(* into steps at its accesses to the shared maps and at the blocking       *)
(* delegation next.Server(ctx).Request/Close, whose outcome is chosen by   *)
(* the rest of the chain (any of: connection or nil, error or nil).        *)
(*                                                                         *)
(* Spec serves the calls one after the other, with every input and with    *)
(* registrations at any moment, also during a delegation.  SpecConcurrent  *)
(* serves two well-formed calls for one connection id at the same time.    *)
(* SpecDerive applies getConnectionID to longer Paths, SpecChain sends      *)
(* Requests through the chain of endpoint.NewServer, and SpecPrefixes runs *)
(* the excludedPrefixesServer against its config file.                     *)
(***************************************************************************)
EXTENDS Integers, Sequences, FiniteSets, TLC

\* ---------------------------------------------------------------- bounds
\* total number of Request/Close calls started in one behaviour
MaxOps == 4
\* number of calls started in one behaviour of the concurrent specification
MaxConcurrentOps == 3
\* longest Path (number of PathSegments) a caller supplies
MaxPathLen == 2
\* longest Path getConnectionID is applied to on its own
MaxDeriveLen == 6
\* largest number of additionalFunctionality elements handed to endpoint.NewServer
MaxAdditional == 2
\* number of Requests sent through one endpoint chain
MaxChainCalls == 2
\* number of times the excluded prefixes config file is rewritten
MaxFileWrites == 2
\* number of Requests served by the excludedPrefixesServer
MaxPrefixRequests == 2
\* largest Path.Index a caller supplies
MaxIndex == 2

\* goroutines serving inbound calls
Calls == {1, 2}
\* names under which cross-connect endpoints register
Names == {"n1", "n2"}
\* the Url of the endpoint that registers under a name
EndpointURL(n) == IF n = "n1" THEN "x1" ELSE "x2"
\* Url strings of the registered cross-connect endpoints
CrossURLs == {EndpointURL(n) : n \in Names}
\* PathSegment.Id values
SegIds == {"a"}
\* Connection.Id values a caller supplies: "a" can match a segment, "b" cannot
RequestIds == {"a", "b"}
\* the ids getConnectionID can derive ("" when no segment matches) or a caller supply
ConnIds == SegIds \cup RequestIds \cup {""}
\* PathSegment.Name values; name is this element's own name (l.name)
name == "me"
SegNames == {"me", "other"}

\* clienturl.ClientURL(ctx) is a *url.URL: an object (its pointer) with a value.
\* Objects 1 and 2 are distinct pointers to equal URLs, 3 is another URL.
URLPtrs == {1, 2, 3}
URLValue(p) == IF p = 3 THEN "u2" ELSE "u1"

\* what a delegation to the rest of the chain can return: (conn, err)
RequestOutcomes == [conn : BOOLEAN, err : BOOLEAN]
\* next.Server(ctx).Close returns (empty, err)
CloseOutcomes == [conn : {FALSE}, err : BOOLEAN]

Segments == [Name : SegNames, Id : SegIds]
Paths == UNION {[1..n -> Segments] : n \in 0..MaxPathLen}

VARIABLES
  endpoints,         \* interposeServer.endpoints: registered name -> Url
  activeConnection,  \* interposeServer.activeConnection: id -> connectionInfo
  calls,             \* per goroutine: the call it serves and its local variables
  nops,              \* number of calls started so far
  created,           \* per id: how many times LoadOrStore stored a new connectionInfo
  closeLog,          \* per id: the targets of the Close delegations, in order
  accepted,          \* per id: the targets whose connection a first Request returned
  crossClosed,       \* per id: a Close forwarded to the cross-connect address returned no error
  derive,            \* getConnectionID on its own: the Path, the Index and the id derived
  chain,             \* the chain of endpoint.NewServer and the Request passing through it
  eps                \* the excludedPrefixesServer, its config file and the Request it serves

\* the variables of the interposeServer
serverVars == <<endpoints, activeConnection, calls, nops, created, closeLog, accepted, crossClosed>>
\* the variables of the other elements
otherVars == <<derive, chain, eps>>

vars == <<serverVars, otherVars>>

\* ------------------------------------------------------------ connectionInfo
connectionInfo(endpointURL, interposeNSEURL) ==
  [endpointURL |-> endpointURL, interposeNSEURL |-> interposeNSEURL, closingNSE |-> FALSE]

\* sync.Map.Load: (value, ok)
Loaded(m, k) == k \in DOMAIN m

\* sync.Map.LoadOrStore: keeps the existing value when the key is present
MapLoadOrStore(m, k, v) == IF k \in DOMAIN m THEN m ELSE (k :> v) @@ m

\* sync.Map.Delete
MapDelete(m, k) == [x \in DOMAIN m \ {k} |-> m[x]]

\* ------------------------------------------------------------ getConnectionID
\* Go indexes PathSegments from 0: the segment at Go index i is path[i + 1].
RECURSIVE scanSegments(_, _, _)
scanSegments(path, i, id) ==
  IF i <= 0 THEN id
  ELSE scanSegments(path, i - 1, IF path[i + 1].Name = name THEN path[i + 1].Id ELSE id)

\* the loop starts by reading PathSegments[ind]: out of range when ind >= len
IndexOutOfRange(path, ind) == ind > 0 /\ ind >= Len(path)

\* variant: the scan stops at the first segment of this element it meets,
\* the one with the highest index
getConnectionIDFirstMet(path, ind) ==
  LET M == {i \in 1..ind : path[i + 1].Name = name}
  IN  IF M = {} THEN "" ELSE path[(CHOOSE i \in M : \A j \in M : j <= i) + 1].Id

getConnectionID(path, ind) == scanSegments(path, ind, "")

\* getConnectionID not called on its own
NoDerive == [path |-> <<>>, ind |-> 0, id |-> "", pc |-> "none"]

\* the Paths getConnectionID is applied to on its own: segments of this element
\* and of others, with two ids, and an Index inside the Path
DeriveIds == {"a", "b"}
DeriveSegments == [Name : SegNames, Id : DeriveIds]
DerivePaths == UNION {[1..n -> DeriveSegments] : n \in 2..MaxDeriveLen}

\* no chain built by endpoint.NewServer
NoChain == [pc |-> "none"]

\* no excludedPrefixesServer
NoEps == [pc |-> "none"]

\* ------------------------------------------------------------ calls
\* The local variables of a call.  shape records which of the checks on the
\* Path the call met: "empty" (no segments), "index0" (Index <= 0),
\* "range" (Index >= number of segments) or "ok".  connID and clientURL are
\* set when the code reads them; ok is the ok of activeConnection.Load; first
\* is set when the call ranges over the endpoints.  log lists the delegations
\* that returned.
IdleCall ==
  [op |-> "none", pc |-> "idle", shape |-> "ok", connID |-> "",
   clientConnID |-> "", clientURL |-> 0, ok |-> FALSE, first |-> FALSE, todo |-> {},
   cand |-> "", target |-> "", log |-> <<>>, result |-> 0, err |-> "none"]

PathShape(path, ind) ==
  IF Len(path) = 0 THEN "empty"
  ELSE IF ind <= 0 THEN "index0"
  ELSE IF IndexOutOfRange(path, ind) THEN "range"
  ELSE "ok"

Free(c) == calls[c].pc \in {"idle", "done"}

\* a panic in a handler goroutine ends the process
Crashed == \E c \in Calls : calls[c].pc = "panicked"
Running == ~Crashed

\* goroutines are interchangeable: a new call is served by the first free one
FirstFree(c) == Free(c) /\ \A d \in Calls : d < c => ~Free(d)

\* the locals of a call that returned are gone at the next step
Reap(cs) == [c \in Calls |-> IF cs[c].pc = "done" THEN IdleCall ELSE cs[c]]

\* a call that returned: result 0 is nil, k > 0 is the connection returned by
\* its k-th delegation
Return(call, result, err) == [call EXCEPT !.pc = "done", !.result = result, !.err = err]

\* ------------------------------------------------------------ Request
\* variant: the connectionInfo of every candidate replaces the stored one
StoreConnectionInfoOverwrite(m, id, info) ==
  (id :> info) @@ [x \in DOMAIN m \ {id} |-> m[x]]

\* variant: nothing is stored before the candidate is tried
StoreConnectionInfoLater(m, id, info) == m

\* Request, line 210: the connectionInfo of the candidate is stored only when
\* the id has none yet
StoreConnectionInfo(m, id, info) == MapLoadOrStore(m, id, info)

\* Request, line 230: pointer comparison of the two *url.URL
URLMismatch(clientURL, info) == clientURL # info.endpointURL

\* variant: an already routed Request is forwarded to the cross-connect address
ForwardURLCrossConnect(info) == info.interposeNSEURL

\* Request, line 233: the address an already routed Request is forwarded to
ForwardURL(info) == URLValue(info.endpointURL)

\* variant: Index 0 is let through
MalformedIndexZero(path, ind) == Len(path) = 0 \/ ind < 0

\* Request, line 188: the Path has no segment before this element
Malformed(path, ind) == Len(path) = 0 \/ ind <= 0

\* Request, lines 222-225: what Request returns once Range is over
RequestResult(call, result) ==
  IF result # 0 THEN Return(call, result, "none") ELSE Return(call, 0, "noroute")

\* the targets whose connection a first Request has returned, after call returned
Accept(call) ==
  IF call.pc = "done" /\ call.first /\ call.err = "none"
    THEN [accepted EXCEPT ![call.connID] = @ \cup {call.log[call.result].target}]
    ELSE accepted

\* Request, lines 184-201 and 228-233: up to the start of Range or the
\* delegation of an already routed connection
RequestBegin(c, connID, path, ind, clientURL) ==
  /\ Running /\ FirstFree(c) /\ nops < MaxOps
  /\ nops' = nops + 1
  /\ LET call == [IdleCall EXCEPT !.op = "request", !.shape = PathShape(path, ind)]
         id == getConnectionID(path, ind)
         read == [call EXCEPT !.clientConnID = id, !.clientURL = clientURL]
     IN calls' = [Reap(calls) EXCEPT ![c] =
          IF Malformed(path, ind) THEN Return(call, 0, "malformed")
          ELSE IF IndexOutOfRange(path, ind) THEN [call EXCEPT !.pc = "panicked"]
          ELSE IF ~Loaded(activeConnection, id)
            THEN IF connID # id
                   THEN Return([read EXCEPT !.connID = connID], 0, "mismatch")
                   ELSE [read EXCEPT !.connID = connID, !.pc = "range",
                                     !.first = TRUE, !.todo = DOMAIN endpoints]
          ELSE IF URLMismatch(clientURL, activeConnection[id])
            THEN Return([read EXCEPT !.ok = TRUE], 0, "consistency")
            ELSE [read EXCEPT !.ok = TRUE, !.pc = "delegating",
                              !.target = ForwardURL(activeConnection[id])]]
  /\ UNCHANGED <<endpoints, activeConnection, created, closeLog, accepted, crossClosed, otherVars>>

\* Request, lines 205-214: Range hands the next registered endpoint to the
\* callback, which stores the connectionInfo and delegates to the candidate.
\* An endpoint deleted since Range began is passed over.
RangeStep(c) ==
  /\ Running /\ calls[c].pc = "range"
  /\ \E k \in calls[c].todo :
       IF k \notin DOMAIN endpoints
         THEN /\ calls' = [Reap(calls) EXCEPT ![c].todo = @ \ {k}]
              /\ UNCHANGED <<activeConnection, created>>
         ELSE LET crossNSEURL == endpoints[k]
                  id == calls[c].connID
              IN /\ activeConnection' =
                      StoreConnectionInfo(activeConnection, id,
                                          connectionInfo(calls[c].clientURL, crossNSEURL))
                 /\ created' = [created EXCEPT ![id] =
                      IF Loaded(activeConnection, id) /\ activeConnection' = activeConnection
                      THEN @ ELSE @ + 1]
                 /\ calls' = [Reap(calls) EXCEPT ![c].todo = @ \ {k}, ![c].cand = k,
                                                 ![c].target = crossNSEURL,
                                                 ![c].pc = "delegating"]
  /\ UNCHANGED <<endpoints, nops, closeLog, accepted, crossClosed, otherVars>>

\* Request, lines 221-225: Range visited every endpoint
RangeEnd(c) ==
  /\ Running /\ calls[c].pc = "range" /\ calls[c].todo = {}
  /\ calls' = [Reap(calls) EXCEPT ![c] = RequestResult(calls[c], calls[c].result)]
  /\ accepted' = Accept(calls'[c])
  /\ UNCHANGED <<endpoints, activeConnection, nops, created, closeLog, crossClosed, otherVars>>

\* variant: Range goes on to the next endpoint whatever the candidate returned
ContinueRangeAlways(err) == TRUE

\* Request, lines 215-220: the callback returns true, and Range goes on to
\* the next endpoint, exactly when the candidate returned an error
ContinueRange(err) == err

\* Request, lines 214-220 and 234: the delegation returns (conn, err)
RequestReturn(c, out) ==
  /\ Running /\ calls[c].pc = "delegating" /\ calls[c].op = "request"
  /\ LET log == Append(calls[c].log,
                       [target |-> calls[c].target, cand |-> calls[c].cand,
                        conn |-> out.conn, err |-> out.err])
         result == IF out.conn THEN Len(log) ELSE 0
         call == [calls[c] EXCEPT !.log = log, !.cand = "", !.target = ""]
     IN calls' = [Reap(calls) EXCEPT ![c] =
          IF ~calls[c].first
            THEN Return(call, result, IF out.err THEN "downstream" ELSE "none")
          ELSE IF ContinueRange(out.err)
            THEN [call EXCEPT !.pc = "range", !.result = result, !.err = "downstream"]
            ELSE RequestResult(call, result)]
  /\ accepted' = Accept(calls'[c])
  /\ UNCHANGED <<endpoints, activeConnection, nops, created, closeLog, crossClosed, otherVars>>

\* ------------------------------------------------------------ Close
\* variant: the two phases of Close are forwarded the other way round
CloseURLSwapped(info, closing) ==
  IF closing THEN info.interposeNSEURL ELSE URLValue(info.endpointURL)

\* variant: every Close is forwarded to the cross-connect address
CloseURLCrossConnect(info, closing) == info.interposeNSEURL

\* Close, lines 260 and 264: the address a Close is forwarded to, given the
\* value of closingNSE the call read
CloseURL(info, closing) ==
  IF ~closing THEN info.interposeNSEURL ELSE URLValue(info.endpointURL)

\* variant: a Close for an id without connectionInfo is forwarded all the same
CloseMissingForwarded(call) == [call EXCEPT !.pc = "delegating"]

\* Close, lines 252-255: no connectionInfo for the id, Close returns the error
CloseMissing(call) == Return(call, 0, "missing")

\* Close, lines 249-257 and 264: derive the id, load the connectionInfo and
\* read closingNSE
CloseBegin(c, path, ind) ==
  /\ Running /\ FirstFree(c) /\ nops < MaxOps
  /\ nops' = nops + 1
  /\ LET call == [IdleCall EXCEPT !.op = "close", !.shape = PathShape(path, ind)]
         id == getConnectionID(path, ind)
         read == [call EXCEPT !.clientConnID = id]
     IN IF IndexOutOfRange(path, ind)
          THEN /\ calls' = [Reap(calls) EXCEPT ![c] = [call EXCEPT !.pc = "panicked"]]
               /\ UNCHANGED closeLog
        ELSE IF ~Loaded(activeConnection, id)
          THEN /\ calls' = [Reap(calls) EXCEPT ![c] = CloseMissing(read)]
               /\ UNCHANGED closeLog
        ELSE IF ~activeConnection[id].closingNSE
          THEN /\ calls' = [Reap(calls) EXCEPT ![c] =
                              [read EXCEPT !.ok = TRUE, !.pc = "closeRead"]]
               /\ UNCHANGED closeLog
          ELSE LET url == CloseURL(activeConnection[id], TRUE)
               IN /\ calls' = [Reap(calls) EXCEPT ![c] =
                       [read EXCEPT !.ok = TRUE, !.pc = "delegating", !.target = url]]
                  /\ closeLog' = [closeLog EXCEPT ![id] = Append(@, url)]
  /\ UNCHANGED <<endpoints, activeConnection, created, accepted, crossClosed, otherVars>>

\* Close, lines 259-261: closingNSE was read as false; set it and forward
CloseSetFlag(c) ==
  /\ Running /\ calls[c].pc = "closeRead"
  /\ LET id == calls[c].clientConnID
         url == CloseURL(activeConnection[id], FALSE)
     IN /\ activeConnection' = [activeConnection EXCEPT ![id].closingNSE = TRUE]
        /\ calls' = [Reap(calls) EXCEPT ![c].pc = "delegating", ![c].target = url]
        /\ closeLog' = [closeLog EXCEPT ![id] = Append(@, url)]
  /\ UNCHANGED <<endpoints, nops, created, accepted, crossClosed, otherVars>>

\* Close, lines 261 and 265: the delegation returns (empty, err), passed on as is
CloseReturn(c, out) ==
  /\ Running /\ calls[c].pc = "delegating" /\ calls[c].op = "close"
  /\ LET log == Append(calls[c].log,
                       [target |-> calls[c].target, cand |-> "",
                        conn |-> FALSE, err |-> out.err])
     IN calls' = [Reap(calls) EXCEPT ![c] =
          Return([calls[c] EXCEPT !.log = log, !.target = ""], 0,
                 IF out.err THEN "downstream" ELSE "none")]
  /\ crossClosed' = [crossClosed EXCEPT ![calls[c].clientConnID] =
       @ \/ (~out.err /\ calls[c].target = activeConnection[calls[c].clientConnID].interposeNSEURL)]
  /\ UNCHANGED <<endpoints, activeConnection, nops, created, closeLog, accepted, otherVars>>

\* ------------------------------------------------------------ registration
\* LoadOrStore, lines 268-274
LoadOrStore(n, url) ==
  /\ Running
  /\ endpoints' = MapLoadOrStore(endpoints, n, url)
  /\ calls' = Reap(calls)
  /\ UNCHANGED <<activeConnection, nops, created, closeLog, accepted, crossClosed, otherVars>>

\* variant: Delete also drops the connectionInfo routed through the endpoint
DeleteWithRoutes(n) ==
  /\ Running
  /\ endpoints' = MapDelete(endpoints, n)
  /\ activeConnection' =
       [id \in {x \in DOMAIN activeConnection :
                  n \notin DOMAIN endpoints
                  \/ activeConnection[x].interposeNSEURL # endpoints[n]}
          |-> activeConnection[id]]
  /\ calls' = Reap(calls)
  /\ UNCHANGED <<nops, created, closeLog, accepted, crossClosed, otherVars>>

\* Delete, lines 276-278
Delete(n) ==
  /\ Running
  /\ endpoints' = MapDelete(endpoints, n)
  /\ calls' = Reap(calls)
  /\ UNCHANGED <<activeConnection, nops, created, closeLog, accepted, crossClosed, otherVars>>

\* ------------------------------------------------------------ specification
\* NewServer, lines 174-180: both maps empty
\* the interposeServer NewServer returns: both maps empty, no call
ServerIdle ==
  /\ endpoints = <<>>
  /\ activeConnection = <<>>
  /\ calls = [c \in Calls |-> IdleCall]
  /\ nops = 0
  /\ created = [id \in ConnIds |-> 0]
  /\ closeLog = [id \in ConnIds |-> <<>>]
  /\ accepted = [id \in ConnIds |-> {}]
  /\ crossClosed = [id \in ConnIds |-> FALSE]

Init ==
  /\ ServerIdle
  /\ derive = NoDerive
  /\ chain = NoChain
  /\ eps = NoEps

\* one call at a time: a new call starts when no other is in progress
Quiet == \A c \in Calls : Free(c)

Next ==
  \/ \E c \in Calls, connID \in RequestIds, path \in Paths, ind \in 0..MaxIndex,
        clientURL \in URLPtrs :
       Quiet /\ RequestBegin(c, connID, path, ind, clientURL)
  \/ \E c \in Calls : RangeStep(c)
  \/ \E c \in Calls : RangeEnd(c)
  \/ \E c \in Calls, out \in RequestOutcomes : RequestReturn(c, out)
  \/ \E c \in Calls, path \in Paths, ind \in 0..MaxIndex :
       Quiet /\ CloseBegin(c, path, ind)
  \/ \E c \in Calls : CloseSetFlag(c)
  \/ \E c \in Calls, out \in CloseOutcomes : CloseReturn(c, out)
  \/ \E n \in Names : LoadOrStore(n, EndpointURL(n))
  \/ \E n \in Names : Delete(n)

\* calls served one after the other, with every input and with registrations
\* at any moment
Spec == Init /\ [][Next]_vars

\* Concurrent calls: both goroutines serve well-formed calls for the
\* connection id "a" at the same time; the cross-connect endpoints register
\* before the first call
RoutedPaths == {p \in Paths : ~IndexOutOfRange(p, 1) /\ Len(p) > 0
                              /\ getConnectionID(p, 1) = "a"}

NextConcurrent ==
  \/ \E c \in Calls, path \in RoutedPaths, clientURL \in URLPtrs :
       nops < MaxConcurrentOps /\ RequestBegin(c, "a", path, 1, clientURL)
  \/ \E c \in Calls : RangeStep(c)
  \/ \E c \in Calls : RangeEnd(c)
  \/ \E c \in Calls, out \in RequestOutcomes : RequestReturn(c, out)
  \/ \E c \in Calls, path \in RoutedPaths :
       nops < MaxConcurrentOps /\ CloseBegin(c, path, 1)
  \/ \E c \in Calls : CloseSetFlag(c)
  \/ \E c \in Calls, out \in CloseOutcomes : CloseReturn(c, out)
  \/ \E n \in Names : nops = 0 /\ LoadOrStore(n, EndpointURL(n))
  \/ \E n \in Names : nops = 0 /\ Delete(n)

SpecConcurrent == Init /\ [][NextConcurrent]_vars

\* ============================================================ properties
\* ------------------------------------------------------------ getConnectionID alone
\* getConnectionID applied to one Path and one Index with 1 <= Index < len
InitDerive ==
  /\ ServerIdle
  /\ \E path \in DerivePaths : \E ind \in 1..(Len(path) - 1) :
       derive = [path |-> path, ind |-> ind, id |-> "", pc |-> "called"]
  /\ chain = NoChain
  /\ eps = NoEps

Derive ==
  /\ derive.pc = "called"
  /\ derive' = [derive EXCEPT !.id = getConnectionID(derive.path, derive.ind),
                               !.pc = "returned"]
  /\ UNCHANGED <<serverVars, chain, eps>>

NextDerive == Derive

SpecDerive == InitDerive /\ [][NextDerive]_vars

\* ------------------------------------------------------------ endpoint.NewServer
\* The chain endpoint.NewServer builds and one Request at a time passing
\* through it.  chain.NewNetworkServiceServer and the five standard elements
\* are taken by their contract: the engine hands the Request to element 1,
\* "next" of element i is element i + 1, and "next" of the last element
\* returns the Request unchanged.  An element either forwards to
\* next or returns without calling it.  state counts, per position, the
\* Requests the element has acted on; before is state when the Request entered.
AdditionalElements == {"interpose", "excludedprefixes"}
Additional == UNION {[1..n -> AdditionalElements] : n \in 0..MaxAdditional}

\* variant: the identity is stamped before the authorization
ServerChainSetIdFirst(additional) ==
  <<"setid", "authorize", "monitor", "timeout", "updatepath">> \o additional

\* NewServer, lines 60-67: the elements in the order they are appended
ServerChain(additional) ==
  <<"authorize", "setid", "monitor", "timeout", "updatepath">> \o additional

NewChain(additional) ==
  [elements |-> ServerChain(additional), additional |-> additional,
   pc |-> "idle", pos |-> 0, invoked |-> <<>>, rejected |-> FALSE,
   state |-> [i \in 1..(5 + Len(additional)) |-> 0],
   before |-> [i \in 1..(5 + Len(additional)) |-> 0], ncalls |-> 0]

InitChain ==
  /\ ServerIdle
  /\ derive = NoDerive
  /\ eps = NoEps
  /\ \E additional \in Additional : chain = NewChain(additional)

\* a Request enters the chain at its first element
ChainRequest ==
  /\ chain.pc \in {"idle", "returned"} /\ chain.ncalls < MaxChainCalls
  /\ chain' = [chain EXCEPT !.pc = "running", !.pos = 1,
                             !.invoked = <<chain.elements[1]>>,
                             !.rejected = FALSE, !.before = chain.state,
                             !.ncalls = @ + 1]
  /\ UNCHANGED <<serverVars, derive, eps>>

\* authorize: the requestPolicy returns an error, which authorize returns
\* without calling next
AuthorizeReject ==
  /\ chain.pc = "running" /\ chain.elements[chain.pos] = "authorize"
  /\ chain' = [chain EXCEPT !.pc = "returned", !.rejected = TRUE]
  /\ UNCHANGED <<serverVars, derive, eps>>

\* the element acts on the Request (authorize keeps no state) and calls next
ElementForward ==
  /\ chain.pc = "running"
  /\ LET i == chain.pos
         acted == IF chain.elements[i] = "authorize" THEN chain.state
                  ELSE [chain.state EXCEPT ![i] = @ + 1]
     IN chain' = IF i < Len(chain.elements)
                   THEN [chain EXCEPT !.state = acted, !.pos = i + 1,
                                      !.invoked = Append(@, chain.elements[i + 1])]
                   ELSE [chain EXCEPT !.state = acted, !.pc = "returned"]
  /\ UNCHANGED <<serverVars, derive, eps>>

\* an additional element returns its own result or error without calling next
ElementReturn ==
  /\ chain.pc = "running" /\ chain.elements[chain.pos] \in AdditionalElements
  /\ chain' = [chain EXCEPT !.state[chain.pos] = @ + 1, !.pc = "returned"]
  /\ UNCHANGED <<serverVars, derive, eps>>

NextChain == ChainRequest \/ AuthorizeReject \/ ElementForward \/ ElementReturn

SpecChain == InitChain /\ [][NextChain]_vars

\* ------------------------------------------------------------ excludedprefixes
\* The config file is missing, empty, not YAML, YAML with a prefix that is
\* no CIDR, or YAML with the prefix list "p1" or "p2".
FileStates == {"missing", "empty", "badyaml", "badprefixes", "p1", "p2"}

\* atomic.Value before any Store: Load returns nil
NoPool == "nil"

\* init, line 51: yaml.Unmarshal returns an error
UnmarshalFails(file) == file = "badyaml"

\* init, line 56: prefixpool.New returns an error
NewPoolFails(file) == file = "badprefixes"

\* the pool prefixpool.New builds: ioutil.ReadFile of a missing file yields no
\* bytes (its error is dropped, line 63), which unmarshal to no prefixes, as
\* an empty file does
NewPool(file) == IF file \in {"missing", "empty"} THEN "p0" ELSE file

\* init, lines 47-62: updatePrefixes applied to the bytes of the file; the
\* value of eps.prefixPool afterwards
updatePrefixes(pool, file) ==
  IF UnmarshalFails(file) THEN pool
  ELSE IF NewPoolFails(file) THEN pool
  ELSE NewPool(file)

\* NewServer, lines 97-107: nothing stored, init not run; the config file is
\* in any state.  lastGood is the pool of the last file content that
\* updatePrefixes parsed, used is the pool the last Request read.
InitPrefixes ==
  /\ ServerIdle
  /\ derive = NoDerive
  /\ chain = NoChain
  /\ \E file \in FileStates :
       eps = [file |-> file, prefixPool |-> NoPool, once |-> FALSE, notified |-> FALSE,
              lastGood |-> NoPool, pc |-> "idle", used |-> NoPool,
              nreq |-> 0, nwrites |-> 0]

\* the config file is rewritten; the watcher, once started, is notified
FileWrite(file) ==
  /\ eps.pc # "panicked" /\ eps.nwrites < MaxFileWrites
  /\ eps' = [eps EXCEPT !.file = file, !.notified = eps.once, !.nwrites = @ + 1]
  /\ UNCHANGED <<serverVars, derive, chain>>

\* init, lines 65-70: the watcher calls updatePrefixes with the file's bytes
WatchUpdate ==
  /\ eps.pc # "panicked" /\ eps.notified
  /\ LET pool == updatePrefixes(eps.prefixPool, eps.file)
     IN eps' = [eps EXCEPT !.prefixPool = pool, !.notified = FALSE,
                           !.lastGood = IF UnmarshalFails(eps.file) \/ NewPoolFails(eps.file)
                                        THEN @ ELSE pool]
  /\ UNCHANGED <<serverVars, derive, chain>>

\* Request, line 75, and init, lines 63-64: once.Do(init) reads the file and
\* applies updatePrefixes the first time only
PrefixesRequest ==
  /\ eps.pc \in {"idle", "done"} /\ eps.nreq < MaxPrefixRequests
  /\ LET pool == updatePrefixes(eps.prefixPool, eps.file)
     IN eps' = IF eps.once
                 THEN [eps EXCEPT !.pc = "load", !.nreq = @ + 1]
                 ELSE [eps EXCEPT !.pc = "load", !.nreq = @ + 1, !.once = TRUE,
                                  !.prefixPool = pool,
                                  !.lastGood = IF UnmarshalFails(eps.file)
                                                  \/ NewPoolFails(eps.file)
                                               THEN @ ELSE pool]
  /\ UNCHANGED <<serverVars, derive, chain>>

\* Request, line 82: prefixPool.Load().(*prefixpool.PrefixPool) panics when
\* Load returns nil
PrefixesLoad ==
  /\ eps.pc = "load"
  /\ eps' = IF eps.prefixPool = NoPool
              THEN [eps EXCEPT !.pc = "panicked"]
              ELSE [eps EXCEPT !.pc = "done", !.used = eps.prefixPool]
  /\ UNCHANGED <<serverVars, derive, chain>>

NextPrefixes ==
  \/ \E file \in FileStates : FileWrite(file)
  \/ WatchUpdate
  \/ PrefixesRequest
  \/ PrefixesLoad

SpecPrefixes == InitPrefixes /\ [][NextPrefixes]_vars

\* ------------------------------------------------------------ property helpers
Done(c) == calls[c].pc = "done"

\* the connectionInfo the call loaded or stored under its derived id
Info(c) == activeConnection[calls[c].clientConnID]

\* what Request passes on from a delegation that returned (conn, err)
Verbatim(c, k) ==
  /\ calls[c].result = (IF calls[c].log[k].conn THEN k ELSE 0)
  /\ calls[c].err = (IF calls[c].log[k].err THEN "downstream" ELSE "none")

\* ------------------------------------------------------------ C1
\* C1: a first establish returns success exactly when a candidate's delegation
\* returned without error, and then returns that candidate's result; otherwise
\* (every candidate failed, or no candidate) it returns the no-route error.
C1_FirstEstablishResult ==
  \A c \in Calls :
    Done(c) /\ calls[c].first =>
      LET log == calls[c].log
          won == {k \in 1..Len(log) : ~log[k].err}
      IN IF won # {}
           THEN calls[c].err = "none" /\ calls[c].result \in won
           ELSE calls[c].err = "noroute" /\ calls[c].result = 0

\* ------------------------------------------------------------ C2
\* C2: after a first establish that returned success, the connectionInfo of the
\* id records the address of the candidate whose delegation succeeded.
C2_RouteIsAcceptingCandidate ==
  \A c \in Calls :
    (/\ Done(c) /\ calls[c].first /\ calls[c].err = "none"
     /\ ~calls[c].log[Len(calls[c].log)].err)
    => /\ Loaded(activeConnection, calls[c].connID)
       /\ activeConnection[calls[c].connID].interposeNSEURL
            = calls[c].log[Len(calls[c].log)].target

\* ------------------------------------------------------------ C3
\* C3 as stated: with a connectionInfo present and the upstream address equal
\* to the recorded one (here: the recorded address object itself), Request
\* delegates once, to the recorded cross-connect address, without ranging over
\* the endpoints, and passes the outcome on.
C3_RepeatForwardsToCrossConnect ==
  \A c \in Calls :
    (/\ calls[c].op = "request" /\ calls[c].ok /\ Done(c)
     /\ calls[c].clientURL = Info(c).endpointURL)
    => /\ ~calls[c].first
       /\ Len(calls[c].log) = 1
       /\ calls[c].log[1].cand = ""
       /\ calls[c].log[1].target = Info(c).interposeNSEURL
       /\ Verbatim(c, 1)

\* C3 as amended: with a connectionInfo present and the recorded upstream
\* address object supplied again, Request delegates once, to the recorded
\* upstream address, without ranging over the endpoints, and passes the
\* outcome on.
C3_RepeatForwardsToEndpoint ==
  \A c \in Calls :
    (/\ calls[c].op = "request" /\ calls[c].ok
     /\ calls[c].clientURL = Info(c).endpointURL)
    => /\ ~calls[c].first /\ calls[c].todo = {} /\ calls[c].cand = ""
       /\ calls[c].pc \in {"delegating", "done"}
       /\ calls[c].pc = "delegating" =>
            calls[c].log = <<>> /\ calls[c].target = URLValue(Info(c).endpointURL)
       /\ Done(c) =>
            /\ Len(calls[c].log) = 1
            /\ calls[c].log[1].cand = ""
            /\ calls[c].log[1].target = URLValue(Info(c).endpointURL)
            /\ Verbatim(c, 1)

\* a repeat Request returned its delegation's connection while endpoints are registered
C3_Witness ==
  \E c \in Calls :
    /\ calls[c].op = "request" /\ calls[c].ok /\ Done(c)
    /\ calls[c].clientURL = Info(c).endpointURL
    /\ calls[c].result = 1
    /\ DOMAIN endpoints # {}

\* ------------------------------------------------------------ C4
\* C4: with a connectionInfo present, a Request presenting another upstream
\* address fails with the consistency error without delegating, and a Request
\* presenting an equal address passes the check and is delegated.
C4_AddressCheck ==
  \A c \in Calls :
    calls[c].op = "request" /\ calls[c].ok /\ Done(c) =>
      IF URLValue(calls[c].clientURL) # URLValue(Info(c).endpointURL)
        THEN calls[c].err = "consistency" /\ calls[c].log = <<>>
        ELSE calls[c].err # "consistency" /\ Len(calls[c].log) = 1

\* ------------------------------------------------------------ C5
\* C5: for an id with a connectionInfo, the first Close sets closingNSE and is
\* delegated to the recorded cross-connect address, the second Close is
\* delegated to the recorded upstream address, and each Close delegates once.
C5_TwoPhaseClose ==
  /\ \A id \in ConnIds :
       IF Loaded(activeConnection, id)
         THEN LET info == activeConnection[id]
                  log == closeLog[id]
              IN /\ info.closingNSE <=> Len(log) >= 1
                 /\ Len(log) >= 1 => log[1] = info.interposeNSEURL
                 /\ Len(log) >= 2 => log[2] = URLValue(info.endpointURL)
         ELSE closeLog[id] = <<>>
  /\ \A c \in Calls :
       calls[c].op = "close" /\ calls[c].ok /\ Done(c) =>
         /\ Len(calls[c].log) = 1
         /\ \E k \in 1..Len(closeLog[calls[c].clientConnID]) :
              closeLog[calls[c].clientConnID][k] = calls[c].log[1].target

\* the second Close of an id has been delegated
C5_Witness ==
  \E c \in Calls :
    /\ calls[c].op = "close" /\ Done(c)
    /\ Len(closeLog[calls[c].clientConnID]) = 2

\* ------------------------------------------------------------ C6
\* C6: a first establish that fails with the no-route error leaves no
\* connectionInfo for its id.
C6_ExhaustionLeavesNoRoute ==
  \A c \in Calls :
    Done(c) /\ calls[c].first /\ calls[c].err = "noroute" =>
      ~Loaded(activeConnection, calls[c].connID)

\* ------------------------------------------------------------ C7
\* C7: concurrent first establishes of one id create one connectionInfo, and
\* the calls that succeed were all accepted through the one candidate whose
\* address the connectionInfo records.
C7_ConsistentEndpoint ==
  \A id \in ConnIds :
    /\ created[id] <= 1
    /\ accepted[id] # {} =>
         /\ Loaded(activeConnection, id)
         /\ accepted[id] = {activeConnection[id].interposeNSEURL}

\* ------------------------------------------------------------ C8
\* C8: an id never has more than one connectionInfo created for it, and once it
\* has one, the recorded upstream and cross-connect addresses never change.
C8_FirstWriterWins ==
  /\ [](\A id \in ConnIds :
          /\ created[id] <= 1
          /\ Loaded(activeConnection, id) <=> created[id] = 1)
  /\ [][\A id \in DOMAIN activeConnection :
          /\ id \in DOMAIN activeConnection'
          /\ activeConnection'[id].endpointURL = activeConnection[id].endpointURL
          /\ activeConnection'[id].interposeNSEURL = activeConnection[id].interposeNSEURL]_vars

\* a first establish delegates to a candidate after its own connectionInfo,
\* with another upstream address and another candidate, was not stored
C8_Witness ==
  \E c \in Calls :
    /\ calls[c].first /\ calls[c].pc = "delegating"
    /\ Loaded(activeConnection, calls[c].connID)
    /\ activeConnection[calls[c].connID].endpointURL # calls[c].clientURL
    /\ activeConnection[calls[c].connID].interposeNSEURL # calls[c].target

\* ------------------------------------------------------------ C9
\* a Request that met one of the rejection conditions
RejectedShape(call) == call.op = "request" /\ call.shape \in {"empty", "index0"}
RejectedId(call) ==
  /\ call.op = "request" /\ call.shape = "ok" /\ ~call.ok
  /\ call.connID # call.clientConnID

\* C9: a Request with no segments, with Index <= 0, or (no connectionInfo for
\* the derived id) with an id other than the derived one fails with the
\* matching error, delegates nothing, and leaves both maps unchanged.
C9_RejectionNoSideEffects ==
  /\ [](\A c \in Calls :
          /\ RejectedShape(calls[c]) =>
               /\ Done(c) /\ calls[c].err = "malformed"
               /\ calls[c].result = 0 /\ calls[c].log = <<>>
          /\ RejectedId(calls[c]) =>
               /\ Done(c) /\ calls[c].err = "mismatch"
               /\ calls[c].result = 0 /\ calls[c].log = <<>>)
  /\ [][\A c \in Calls :
          nops' # nops /\ (RejectedShape(calls'[c]) \/ RejectedId(calls'[c])) =>
            /\ endpoints' = endpoints
            /\ activeConnection' = activeConnection]_vars

\* a Request with Index 0 was rejected while both maps were populated
C9_Witness ==
  \E c \in Calls :
    /\ Done(c) /\ RejectedShape(calls[c]) /\ calls[c].shape = "index0"
    /\ DOMAIN endpoints # {} /\ DOMAIN activeConnection # {}

\* ------------------------------------------------------------ C10
\* C10: a call whose Index is out of range returns the malformed-input error
\* and never aborts.
C10_OutOfRangeRejected ==
  \A c \in Calls :
    calls[c].shape = "range" => Done(c) /\ calls[c].err = "malformed"

\* ------------------------------------------------------------ C11
\* the Go indices in 1..ind of the segments that carry this element's name
Matching(path, ind) == {i \in 1..ind : path[i + 1].Name = name}
Lowest(S) == CHOOSE i \in S : \A j \in S : i <= j

\* C11: for a Path and an Index with 1 <= Index < number of segments, the
\* derived id is the Id of the lowest-indexed segment among the Go indices
\* 1..Index whose Name is this element's name, and "" when there is none;
\* the segment at index 0 and the segments above Index play no part.
C11_LowestMatchingSegment ==
  derive.pc = "returned" =>
    LET M == Matching(derive.path, derive.ind)
    IN  derive.id = IF M = {} THEN "" ELSE derive.path[Lowest(M) + 1].Id

\* two segments of this element at or below the Index with different ids, and
\* segments of this element at index 0 and above the Index with the other id
C11_Witness ==
  /\ derive.pc = "returned"
  /\ Len(derive.path) = 6 /\ derive.ind = 4
  /\ Matching(derive.path, derive.ind) = {2, 4}
  /\ derive.path[3].Id = "a" /\ derive.path[5].Id = "b"
  /\ derive.path[1] = [Name |-> name, Id |-> "b"]
  /\ derive.path[6] = [Name |-> name, Id |-> "b"]
  /\ derive.id = "a"

\* ------------------------------------------------------------ C12
\* C12: a Close whose derived id has no connectionInfo returns the
\* missing-state error at once: it is not forwarded anywhere, and it neither
\* stores a connectionInfo nor sets closingNSE; a Close that is forwarded
\* always has a connectionInfo.
C12_CloseWithoutEntry ==
  /\ [](\A c \in Calls :
          calls[c].op = "close" /\ calls[c].pc \in {"closeRead", "delegating"}
            => Loaded(activeConnection, calls[c].clientConnID))
  /\ [][\A c \in Calls :
          (/\ nops' # nops /\ FirstFree(c)
           /\ calls'[c].op = "close" /\ calls'[c].pc # "panicked"
           /\ ~Loaded(activeConnection, calls'[c].clientConnID))
          => (/\ calls'[c].pc = "done" /\ calls'[c].err = "missing"
              /\ calls'[c].log = <<>> /\ calls'[c].target = ""
              /\ activeConnection' = activeConnection
              /\ closeLog' = closeLog)]_vars

\* a Close with a well-formed Path, whose derived id "a" has no
\* connectionInfo, returned the error while endpoints are registered
C12_Witness ==
  /\ ~Loaded(activeConnection, "a") /\ endpoints # <<>>
  /\ \E c \in Calls : /\ Done(c) /\ calls[c].op = "close" /\ calls[c].shape = "ok"
                       /\ calls[c].clientConnID = "a" /\ calls[c].err = "missing"

\* ------------------------------------------------------------ C13
\* C13: within one first Request the candidates are tried one after the
\* other: no registered endpoint is delegated to twice, the candidate being
\* tried is none of those already tried, every delegation but the last one
\* returned an error, and while the call is still ranging or delegating every
\* delegation so far returned an error (after a success no candidate follows).
C13_CandidatesInSequence ==
  \A c \in Calls :
    calls[c].first =>
      LET log == calls[c].log
      IN  /\ \A i, j \in 1..Len(log) : i # j => log[i].cand # log[j].cand
          /\ calls[c].pc = "delegating" =>
                /\ calls[c].cand # ""
                /\ \A i \in 1..Len(log) : log[i].cand # calls[c].cand
          /\ calls[c].pc # "delegating" => calls[c].cand = ""
          /\ \A i \in 1..Len(log) : i < Len(log) => log[i].err
          /\ calls[c].pc \in {"range", "delegating"} =>
                \A i \in 1..Len(log) : log[i].err

\* a first Request returned after two candidates: the first failed, the
\* second succeeded
C13_Witness ==
  \E c \in Calls :
    /\ Done(c) /\ calls[c].first /\ Len(calls[c].log) = 2
    /\ calls[c].log[1].err /\ ~calls[c].log[2].err
    /\ calls[c].log[1].cand # calls[c].log[2].cand

\* ------------------------------------------------------------ C14
\* C14: a step that changes the registry (LoadOrStore, Delete) leaves the
\* activeConnection table as it is; a Close or a repeat Request that is being
\* forwarded goes to an address recorded in the connectionInfo of its id,
\* whether or not the endpoint is still registered.
C14_RegistryApartFromRoutes ==
  /\ [][endpoints' # endpoints => activeConnection' = activeConnection]_vars
  /\ [](\A c \in Calls :
          calls[c].pc = "delegating" /\ ~calls[c].first =>
            /\ Loaded(activeConnection, calls[c].clientConnID)
            /\ calls[c].target \in {Info(c).interposeNSEURL, URLValue(Info(c).endpointURL)})

\* a Close is being forwarded to the recorded cross-connect address, which no
\* registered endpoint has any more
C14_Witness ==
  \E c \in Calls :
    /\ calls[c].op = "close" /\ calls[c].pc = "delegating"
    /\ calls[c].target = Info(c).interposeNSEURL
    /\ \A n \in DOMAIN endpoints : endpoints[n] # calls[c].target

\* ------------------------------------------------------------ C15
\* C15: the elements a Request has reached are always the first ones of
\* authorize, setid, monitor, timeout, updatepath followed by the additional
\* elements in the order given; authorize is reached first; and when
\* authorize rejects, no other element was reached and no element's state
\* differs from what it was when the Request entered.
C15_ConstructionOrder ==
  chain.pc \in {"running", "returned"} =>
    LET order == <<"authorize", "setid", "monitor", "timeout", "updatepath">>
                   \o chain.additional
        n == Len(chain.invoked)
    IN  /\ n >= 1 /\ n <= Len(order)
        /\ chain.invoked = SubSeq(order, 1, n)
        /\ chain.invoked[1] = "authorize"
        /\ chain.pc = "running" => chain.pos = n /\ chain.elements[n] = order[n]
        /\ chain.rejected => chain.invoked = <<"authorize">> /\ chain.state = chain.before

\* a Request went through the whole chain with two additional elements, and
\* the next Request was rejected by authorize
C15_Witness ==
  /\ chain.pc = "returned" /\ chain.rejected /\ chain.ncalls = 2
  /\ chain.additional = <<"excludedprefixes", "interpose">>
  /\ \A i \in 2..7 : chain.state[i] = 1

\* ------------------------------------------------------------ C16
\* C16: a Close is forwarded to the recorded endpoint (upstream) address only
\* once a Close forwarded to the recorded cross-connect address of the same id
\* has returned without error, and never while such a Close is still being
\* forwarded.
C16_UpstreamAfterCrossAck ==
  \A c \in Calls :
    (/\ calls[c].op = "close" /\ calls[c].pc = "delegating"
     /\ calls[c].target = URLValue(Info(c).endpointURL))
    => /\ crossClosed[calls[c].clientConnID]
       /\ ~\E d \in Calls :
             /\ calls[d].op = "close" /\ calls[d].pc = "delegating"
             /\ calls[d].clientConnID = calls[c].clientConnID
             /\ calls[d].target = Info(d).interposeNSEURL

\* ------------------------------------------------------------ C17
\* C17: while a first Request is delegating to a candidate, its id has a
\* connectionInfo (stored before the delegation); a Request for the same id
\* that starts during that delegation finds it and takes the path of an
\* already routed connection: it does not range over the endpoints.
C17_EntryBeforeDelegation ==
  /\ [](\A c \in Calls :
          calls[c].first /\ calls[c].pc = "delegating"
            => Loaded(activeConnection, calls[c].connID))
  /\ [][\A c, d \in Calls :
          (/\ c # d /\ calls[c].first /\ calls[c].pc = "delegating"
           /\ nops' # nops /\ Free(d)
           /\ calls'[d].op = "request" /\ calls'[d].pc # "panicked"
           /\ calls'[d].clientConnID = calls[c].connID)
          => (/\ calls'[d].ok /\ ~calls'[d].first
              /\ calls'[d].pc \in {"delegating", "done"}
              /\ calls'[d].pc = "done" => calls'[d].err = "consistency"
              /\ activeConnection' = activeConnection)]_vars

\* a Request for the id is forwarded as an already routed one while the
\* first Request for that id is still delegating to its candidate
C17_Witness ==
  \E c, d \in Calls :
    /\ calls[c].first /\ calls[c].pc = "delegating"
    /\ calls[d].op = "request" /\ calls[d].ok /\ ~calls[d].first
    /\ calls[d].pc = "delegating" /\ calls[d].clientConnID = calls[c].connID

\* ------------------------------------------------------------ C18
\* C18: a connectionInfo is never removed and closingNSE, once set, stays
\* set; so, with the calls served one after the other, every Close of an id
\* after its first one (the second, the third, and those after a repeat
\* Request) is forwarded to the recorded endpoint address, never to the
\* cross-connect address.
C18_RouteStateMonotonic ==
  /\ [][\A id \in DOMAIN activeConnection :
          /\ id \in DOMAIN activeConnection'
          /\ activeConnection[id].closingNSE => activeConnection'[id].closingNSE]_vars
  /\ [][\A c \in Calls :
          (/\ nops' # nops /\ FirstFree(c)
           /\ calls'[c].op = "close" /\ calls'[c].pc # "panicked"
           /\ Loaded(activeConnection, calls'[c].clientConnID)
           /\ activeConnection[calls'[c].clientConnID].closingNSE)
          => (/\ calls'[c].pc = "delegating"
              /\ calls'[c].target =
                   URLValue(activeConnection[calls'[c].clientConnID].endpointURL))]_vars
  /\ [](\A id \in DOMAIN activeConnection :
          \A k \in 2..Len(closeLog[id]) :
            /\ closeLog[id][k] = URLValue(activeConnection[id].endpointURL)
            /\ closeLog[id][k] # activeConnection[id].interposeNSEURL)

\* the third Close of an id is being forwarded
C18_Witness ==
  \E c \in Calls :
    /\ calls[c].op = "close" /\ calls[c].pc = "delegating"
    /\ Len(closeLog[calls[c].clientConnID]) = 3
    /\ calls[c].target = URLValue(Info(c).endpointURL)

\* ------------------------------------------------------------ C19
\* C19: whatever the interleaving of the reads and writes of closingNSE by
\* overlapping Close calls of one id, exactly one of the Closes forwarded so
\* far, the first, went to the cross-connect address and every other one to
\* the endpoint address: the cross-connect leg is not closed twice.
C19_OneFirstPhase ==
  \A id \in DOMAIN activeConnection :
    \A k \in 1..Len(closeLog[id]) :
      closeLog[id][k] = IF k = 1 THEN activeConnection[id].interposeNSEURL
                        ELSE URLValue(activeConnection[id].endpointURL)

\* ------------------------------------------------------------ C20
\* C20: when a Request reads the prefix pool, after the one-time init, a
\* pool has been stored, whatever the config file was at init (no Request
\* ever fails on the read); an update that does not parse leaves the stored
\* pool as it was; and the pool a Request used is the one of the last
\* config that parsed.
C20_PoolAlwaysStored ==
  /\ [](/\ eps.pc = "load" => eps.prefixPool # NoPool
        /\ eps.pc # "panicked"
        /\ eps.prefixPool = eps.lastGood)
  /\ [][/\ ((/\ eps.notified /\ ~eps'.notified
              /\ (UnmarshalFails(eps.file) \/ NewPoolFails(eps.file)))
             => eps'.prefixPool = eps.prefixPool)
         /\ ((eps.pc = "load" /\ eps'.pc = "done") => eps'.used = eps.lastGood)]_vars

====
